---- MODULE Spec2Model ----
(***************************************************************************)
(* Model of Dungeom.py, a de Bruijn graph assembler: the sequence is cut   *)
(* into k-mer edges, the edges are shuffled with the first one pinned, and *)
(* find_eulerian_tour repeats a recursive edge-consuming pass (find_tour)  *)
(* until the degree table sums to zero; the tour is folded back into a     *)
(* sequence and compared with the input.  The recursion limit is set to    *)
(* the length of the sequence; a call that would exceed it raises          *)
(* RecursionError, which nothing catches.                                  *)
(*                                                                         *)
(* A sequence is a tuple of letters, a k-mer a SubSeq of it, an edge a     *)
(* pair <<prefix, suffix>> of k-mers.  Python lists are sequences indexed  *)
(* from 1; a list iterator is an index into the live list.                 *)
(***************************************************************************)
EXTENDS Integers, Sequences, FiniteSets, TLC

VARIABLES
    seq,            \* sys.argv[1].upper()
    kmer,           \* int(sys.argv[2])
    edges,          \* the list bound to edges
    nodes,          \* the set bound to nodes
    graph,          \* the list bound to graph
    freq_dict,      \* the degree table
    tour,           \* the list bound to tour
    stack,          \* the active calls of find_tour, outermost first
    pc,             \* the statement the program is at
    assembled_seq,  \* line 213
    verdict,        \* the line printed by 215-218
    previous        \* what the previous run on this input printed at 214

vars == <<seq, kmer, edges, nodes, graph, freq_dict, tour, stack, pc,
          assembled_seq, verdict, previous>>

(* Longest input sequence drawn by Init, the named inputs aside. *)
MaxLen == 5

(* check_dna_sequence accepts "GCTAgcta"; seq is upper-cased. *)
Alphabet == {"A", "C", "G", "T"}

(* The example of the module docstring: python Dungeom.py ATGGGTCA 2 *)
ExampleSeq == <<"A", "T", "G", "G", "G", "T", "C", "A">>
ExampleK == 2

(* An input in which no window of k+1 letters is one repeated letter and   *)
(* whose graph has two Eulerian trails from the first k-mer (AACACCAA and  *)
(* AACCACAA) that passes find within the recursion limit; it is run with   *)
(* k = 2.                                                                  *)
TwoTrailSeq == <<"A", "A", "C", "A", "C", "C", "A", "A">>

(* An input whose first edges are self-loops; it is run with k = 4 (edges  *)
(* AAAA-AAAA twice and AAAA-AAAC) and with k = 5 (AAAAA-AAAAA and          *)
(* AAAAA-AAAAC).                                                           *)
SelfLoopSeq == <<"A", "A", "A", "A", "A", "A", "C">>

(***************************************************************************)
(* Inputs.  The program compares letters only for equality, so every       *)
(* sequence behaves as its renaming in which the letters make their first  *)
(* appearance in the order A, C, G, T; Init draws those representatives.   *)
(***************************************************************************)
Rank(c) == CASE c = "A" -> 1 [] c = "C" -> 2 [] c = "G" -> 3 [] c = "T" -> 4

FirstUse(s) ==
    \A i \in 1..Len(s) :
        \A r \in 1..(Rank(s[i]) - 1) : \E j \in 1..(i - 1) : Rank(s[j]) = r

Inputs ==
    {ExampleSeq, TwoTrailSeq, SelfLoopSeq} \cup
    UNION { {s \in [1..n -> Alphabet] : FirstUse(s)} : n \in 2..MaxLen }

(***************************************************************************)
(* Python list and dict primitives.                                        *)
(***************************************************************************)
(* list.remove(x) deleting every element equal to x. *)
ListRemove_all(list, x) == SelectSeq(list, LAMBDA e : e # x)

(* list.remove(x): deletes the first element equal to x. *)
ListRemove(list, x) ==
    LET i == CHOOSE j \in 1..Len(list) :
                 list[j] = x /\ \A h \in 1..(j - 1) : list[h] # x
    IN  SubSeq(list, 1, i - 1) \o SubSeq(list, i + 1, Len(list))

(* The orders random.shuffle can leave a list of n elements in. *)
Orders(n) == Permutations(1..n)

shuffle(list, p) == [i \in 1..Len(list) |-> list[p[i]]]

RECURSIVE SumOver(_, _)
SumOver(d, S) ==
    IF S = {} THEN 0
    ELSE LET n == CHOOSE m \in S : TRUE IN d[n] + SumOver(d, S \ {n})

(* sum(freq_dict.values()) *)
SumValues(d) == SumOver(d, DOMAIN d)

(***************************************************************************)
(* The functions of Dungeom.py.                                            *)
(***************************************************************************)
(* de_bruijn_convert without line 110, nodes.add(str[i+1:i+k+1]). *)
de_bruijn_convert_prefixes(str, k) ==
    [edges |-> [i \in 1..(Len(str) - k) |->
                    <<SubSeq(str, i, i + k - 1), SubSeq(str, i + 1, i + k)>>],
     nodes |-> {SubSeq(str, i, i + k - 1) : i \in 1..(Len(str) - k)}]

de_bruijn_convert(str, k) ==
    [edges |-> [i \in 1..(Len(str) - k) |->
                    <<SubSeq(str, i, i + k - 1), SubSeq(str, i + 1, i + k)>>],
     nodes |-> UNION { {SubSeq(str, i, i + k - 1), SubSeq(str, i + 1, i + k)} :
                       i \in 1..(Len(str) - k) }]

(* shuffled_edges with line 141 as graph.append(first_edge). *)
shuffled_edges_append(g, p) ==
    LET first_edge == g[1]
        rest == ListRemove(g, first_edge)
    IN  shuffle(rest, p) \o <<first_edge>>

(* The for loop acts in its first iteration only: it binds first_edge to   *)
(* element 0 and removes the first element equal to it; the later          *)
(* iterations (over the shortened list) do nothing.                        *)
shuffled_edges(g, p) ==
    LET first_edge == g[1]
        rest == ListRemove(g, first_edge)
    IN  <<first_edge>> \o shuffle(rest, p)

(* The table as out-degree minus in-degree: line 156 adding 1 for          *)
(* node == a and taking 1 off for node == b.                               *)
dictionary_of_node_edge_frequencies_balance(es, ns) ==
    [node \in ns |->
        Cardinality({i \in 1..Len(es) : node = es[i][1]})
            - Cardinality({i \in 1..Len(es) : node = es[i][2]})]

(* One increment per edge for which "node == a or node == b" holds. *)
dictionary_of_node_edge_frequencies(es, ns) ==
    [node \in ns |->
        Cardinality({i \in 1..Len(es) : node = es[i][1] \/ node = es[i][2]})]

(* eulerian_tour_to_superstring with line 199 as superstring += word[0]. *)
RECURSIVE eulerian_tour_to_superstring_first(_)
eulerian_tour_to_superstring_first(t) ==
    IF Len(t) = 0 THEN <<>>
    ELSE IF Len(t) = 1 THEN t[1]
    ELSE eulerian_tour_to_superstring_first(SubSeq(t, 1, Len(t) - 1))
             \o <<t[Len(t)][1]>>

RECURSIVE eulerian_tour_to_superstring(_)
eulerian_tour_to_superstring(t) ==
    IF Len(t) = 0 THEN <<>>
    ELSE IF Len(t) = 1 THEN t[1]
    ELSE eulerian_tour_to_superstring(SubSeq(t, 1, Len(t) - 1))
             \o <<t[Len(t)][Len(t[Len(t)])]>>

(* kmer_dict[a] -= 1 ; kmer_dict[b] -= 1 *)
Decrement(d, a, b) ==
    LET d1 == [d EXCEPT ![a] = @ - 1] IN [d1 EXCEPT ![b] = @ - 1]

(***************************************************************************)
(* 83: sys.setrecursionlimit(len(seq)).  A call is refused with            *)
(* RecursionError when it would put more frames on the stack than the      *)
(* limit.  The frames counted here are those of the program: the module,   *)
(* find_eulerian_tour, and the active calls of find_tour.  An interpreter  *)
(* that counts frames of its own on top refuses the same calls earlier.    *)
(***************************************************************************)
recursion_limit == Len(seq)

(* Frames on the stack inside find_eulerian_tour: the module and itself. *)
FramesBelowFindTour == 2

(***************************************************************************)
(* find_tour as a function: the lists and the dict it is handed, after the *)
(* call, and whether the call raised RecursionError.  find_tour_for is the *)
(* for loop of the call that is frame number depth, from iterator index i  *)
(* on; the nested call works on the same list, so the loop goes on over    *)
(* what the call left of it.  The actions Skip, Consume and Return below   *)
(* take the same call one step at a time.  (st is st0 bound as a value.)   *)
(***************************************************************************)
RECURSIVE find_tour_for(_, _, _, _)
find_tour_for(current, i, depth, st0) ==
    CHOOSE after \in {
        IF st.raised
        THEN st
        ELSE IF i > Len(st.Edges)
        THEN [st EXCEPT !.tour = <<current>> \o @]
        ELSE LET a == st.Edges[i][1]
                 b == st.Edges[i][2]
                 consumed == [Edges |-> ListRemove(st.Edges, <<a, b>>),
                              tour |-> st.tour,
                              kmer_dict |-> Decrement(st.kmer_dict, a, b),
                              raised |-> depth + 1 > recursion_limit]
             IN  IF a = current
                 THEN find_tour_for(current, i + 1, depth,
                          find_tour_for(b, 1, depth + 1, consumed))
                 ELSE find_tour_for(current, i + 1, depth, st)
        : st \in {st0} } : TRUE

find_tour(current, Edges, t, kmer_dict) ==
    find_tour_for(current, 1, FramesBelowFindTour + 1,
                  [Edges |-> Edges, tour |-> t, kmer_dict |-> kmer_dict,
                   raised |-> FramesBelowFindTour + 1 > recursion_limit])

(* Line 169 as while sum(freq_dict.values()) > 0. *)
while_condition_positive(d) == SumValues(d) > 0

(* 169: while sum(freq_dict.values()) != 0 *)
while_condition(d) == SumValues(d) # 0

(* Lines 172-174 and the test of line 169 for the shuffled list g: the     *)
(* pass over g returns and leaves the degree table summing to zero.        *)
Drains(g0, ns) ==
    \E g \in {g0} :
        \E after \in {find_tour(g[1][1], g, <<>>,
                                dictionary_of_node_edge_frequencies(g, ns))} :
            ~after.raised /\ ~while_condition(after.kmer_dict)

(***************************************************************************)
(* Initial state: the validated command line, before line 208.             *)
(***************************************************************************)
Init ==
    /\ seq \in Inputs
    /\ kmer \in 1..(Len(ExampleSeq) - 1)
    /\ kmer < Len(seq)
    /\ seq = ExampleSeq => kmer = ExampleK
    /\ seq = TwoTrailSeq => kmer = 2
    /\ seq = SelfLoopSeq => kmer \in {4, 5}
    /\ edges = <<>>
    /\ nodes = {}
    /\ graph = <<>>
    /\ freq_dict = <<>>
    /\ tour = <<>>
    /\ stack = <<>>
    /\ pc = "main_build"
    /\ assembled_seq = <<>>
    /\ verdict = "none"
    /\ previous = <<>>

(***************************************************************************)
(* Main, lines 208-212.                                                    *)
(***************************************************************************)
(* 208: edges, nodes = de_bruijn_convert(seq, kmer) *)
MainBuild ==
    /\ pc = "main_build"
    /\ edges' = de_bruijn_convert(seq, kmer).edges
    /\ nodes' = de_bruijn_convert(seq, kmer).nodes
    /\ pc' = "main_shuffle"
    /\ UNCHANGED <<seq, kmer, graph, freq_dict, tour, stack, assembled_seq, verdict, previous>>

(* 210: graph = shuffled_edges(edges); the list is shuffled in place, so   *)
(* edges and graph name the same list afterwards.                          *)
MainShuffle ==
    /\ pc = "main_shuffle"
    /\ \E p \in Orders(Len(edges) - 1) :
           /\ graph' = shuffled_edges(edges, p)
           /\ edges' = shuffled_edges(edges, p)
    /\ pc' = "main_freq"
    /\ UNCHANGED <<seq, kmer, nodes, freq_dict, tour, stack, assembled_seq, verdict, previous>>

(* 211: freq_dict = dictionary_of_node_edge_frequencies(graph, nodes) *)
MainFreq ==
    /\ pc = "main_freq"
    /\ freq_dict' = dictionary_of_node_edge_frequencies(graph, nodes)
    /\ pc' = "call_find_eulerian_tour"
    /\ UNCHANGED <<seq, kmer, edges, nodes, graph, tour, stack, assembled_seq, verdict, previous>>

(***************************************************************************)
(* find_eulerian_tour(graph), lines 163-175.  From here on edges, nodes,   *)
(* graph and freq_dict are the function's locals; the module-level lists   *)
(* they shadow are not read again.                                         *)
(***************************************************************************)
(* 167-168 *)
Enter ==
    /\ pc = "call_find_eulerian_tour"
    /\ edges' = de_bruijn_convert(seq, kmer).edges
    /\ nodes' = de_bruijn_convert(seq, kmer).nodes
    /\ freq_dict' = dictionary_of_node_edge_frequencies(
                        graph, de_bruijn_convert(seq, kmer).nodes)
    /\ pc' = "while"
    /\ UNCHANGED <<seq, kmer, graph, tour, stack, assembled_seq, verdict, previous>>

(* 169 *)
WhileTrue ==
    /\ pc = "while"
    /\ while_condition(freq_dict)
    /\ pc' = "pass_build"
    /\ UNCHANGED <<seq, kmer, edges, nodes, graph, freq_dict, tour, stack,
                   assembled_seq, verdict, previous>>

(* 169, 175 and 212: the loop ends, return tour, tour_list = tour *)
WhileFalse ==
    /\ pc = "while"
    /\ ~while_condition(freq_dict)
    /\ pc' = "returned"
    /\ UNCHANGED <<seq, kmer, edges, nodes, graph, freq_dict, tour, stack,
                   assembled_seq, verdict, previous>>

(* 170 *)
PassBuild ==
    /\ pc = "pass_build"
    /\ edges' = de_bruijn_convert(seq, kmer).edges
    /\ nodes' = de_bruijn_convert(seq, kmer).nodes
    /\ pc' = "pass_shuffle"
    /\ UNCHANGED <<seq, kmer, graph, freq_dict, tour, stack, assembled_seq, verdict, previous>>

(* 171: graph = shuffled_edges(edges) *)
PassShuffle(p) ==
    /\ pc = "pass_shuffle"
    /\ graph' = shuffled_edges(edges, p)
    /\ edges' = shuffled_edges(edges, p)
    /\ pc' = "pass_freq"
    /\ UNCHANGED <<seq, kmer, nodes, freq_dict, tour, stack, assembled_seq, verdict, previous>>

(* The pass without line 172: the degree table is left as it is. *)
PassFreq_stale ==
    /\ pc = "pass_freq"
    /\ pc' = "pass_call"
    /\ UNCHANGED <<seq, kmer, edges, nodes, graph, freq_dict, tour, stack, assembled_seq,
                   verdict, previous>>

(* 172 *)
PassFreq ==
    /\ pc = "pass_freq"
    /\ freq_dict' = dictionary_of_node_edge_frequencies(graph, nodes)
    /\ pc' = "pass_call"
    /\ UNCHANGED <<seq, kmer, edges, nodes, graph, tour, stack, assembled_seq, verdict, previous>>

(* The next call fits under the recursion limit. *)
CallFits == FramesBelowFindTour + Len(stack) + 1 <= recursion_limit

(* 173-174: tour = [] ; find_tour(graph[0][0], graph, tour, freq_dict).    *)
(* A frame of find_tour is its current node and the index of the iterator  *)
(* of its for loop.                                                        *)
PassCall ==
    /\ pc = "pass_call"
    /\ CallFits
    /\ tour' = <<>>
    /\ stack' = <<[current |-> graph[1][1], i |-> 1]>>
    /\ pc' = "find_tour"
    /\ UNCHANGED <<seq, kmer, edges, nodes, graph, freq_dict, assembled_seq, verdict, previous>>

(* 173-174 when the call does not fit: the program ends in RecursionError *)
PassCallRaises ==
    /\ pc = "pass_call"
    /\ ~CallFits
    /\ tour' = <<>>
    /\ pc' = "RecursionError"
    /\ UNCHANGED <<seq, kmer, edges, nodes, graph, freq_dict, stack, assembled_seq,
                   verdict, previous>>

(***************************************************************************)
(* find_tour(current, Edges, tour, kmer_dict), lines 176-183.  Edges is    *)
(* the list graph (and edges), kmer_dict the dict freq_dict.  The actions  *)
(* move the innermost frame, the last element of stack.                    *)
(***************************************************************************)
Top == stack[Len(stack)]

(* 177-178: the iterator yields an edge that does not leave current *)
Skip ==
    /\ pc = "find_tour"
    /\ Top.i <= Len(graph)
    /\ graph[Top.i][1] # Top.current
    /\ stack' = [stack EXCEPT ![Len(stack)].i = @ + 1]
    /\ UNCHANGED <<seq, kmer, edges, nodes, graph, freq_dict, tour, pc,
                   assembled_seq, verdict, previous>>

(* 177-182: the iterator yields an edge (a,b) with a == current: remove    *)
(* it, decrement both ends, call find_tour(b, ...)                         *)
Consume ==
    /\ pc = "find_tour"
    /\ Top.i <= Len(graph)
    /\ graph[Top.i][1] = Top.current
    /\ CallFits
    /\ LET a == graph[Top.i][1]
           b == graph[Top.i][2]
       IN  /\ graph' = ListRemove(graph, <<a, b>>)
           /\ edges' = ListRemove(graph, <<a, b>>)
           /\ freq_dict' = Decrement(freq_dict, a, b)
           /\ stack' = Append([stack EXCEPT ![Len(stack)].i = @ + 1],
                              [current |-> b, i |-> 1])
    /\ UNCHANGED <<seq, kmer, nodes, tour, pc, assembled_seq, verdict, previous>>

(* 177-182 when the call of line 182 does not fit: the edge is removed,    *)
(* both ends are decremented, and the program ends in RecursionError       *)
ConsumeRaises ==
    /\ pc = "find_tour"
    /\ Top.i <= Len(graph)
    /\ graph[Top.i][1] = Top.current
    /\ ~CallFits
    /\ LET a == graph[Top.i][1]
           b == graph[Top.i][2]
       IN  /\ graph' = ListRemove(graph, <<a, b>>)
           /\ edges' = ListRemove(graph, <<a, b>>)
           /\ freq_dict' = Decrement(freq_dict, a, b)
    /\ pc' = "RecursionError"
    /\ UNCHANGED <<seq, kmer, nodes, tour, stack, assembled_seq, verdict, previous>>

(* Return with line 183 as tour.append(current). *)
Return_append ==
    /\ pc = "find_tour"
    /\ Top.i > Len(graph)
    /\ tour' = tour \o <<Top.current>>
    /\ stack' = SubSeq(stack, 1, Len(stack) - 1)
    /\ pc' = IF Len(stack) = 1 THEN "while" ELSE "find_tour"
    /\ UNCHANGED <<seq, kmer, edges, nodes, graph, freq_dict, assembled_seq, verdict, previous>>

(* 177 and 183: the iterator is past the end of the list: the loop ends,   *)
(* tour.insert(0, current), return to the caller                           *)
Return ==
    /\ pc = "find_tour"
    /\ Top.i > Len(graph)
    /\ tour' = <<Top.current>> \o tour
    /\ stack' = SubSeq(stack, 1, Len(stack) - 1)
    /\ pc' = IF Len(stack) = 1 THEN "while" ELSE "find_tour"
    /\ UNCHANGED <<seq, kmer, edges, nodes, graph, freq_dict, assembled_seq, verdict, previous>>

(***************************************************************************)
(* Main, lines 213-218.                                                    *)
(***************************************************************************)
(* 213-214 *)
Assemble ==
    /\ pc = "returned"
    /\ assembled_seq' = eulerian_tour_to_superstring(tour)
    /\ pc' = "compare"
    /\ UNCHANGED <<seq, kmer, edges, nodes, graph, freq_dict, tour, stack, verdict,
                   previous>>

(* 215-218 *)
Compare ==
    /\ pc = "compare"
    /\ verdict' = IF assembled_seq = seq THEN "identical" ELSE "not identical"
    /\ pc' = "done"
    /\ UNCHANGED <<seq, kmer, edges, nodes, graph, freq_dict, tour, stack,
                   assembled_seq, previous>>

(***************************************************************************)
(* The program is run again on the same input (Usage, line 34); the        *)
(* sequence the finished run printed is remembered.  One re-run is         *)
(* modelled.                                                               *)
(***************************************************************************)
Rerun ==
    /\ pc = "done"
    /\ previous = <<>>
    /\ previous' = assembled_seq
    /\ edges' = <<>>
    /\ nodes' = {}
    /\ graph' = <<>>
    /\ freq_dict' = <<>>
    /\ tour' = <<>>
    /\ stack' = <<>>
    /\ pc' = "main_build"
    /\ assembled_seq' = <<>>
    /\ verdict' = "none"
    /\ UNCHANGED <<seq, kmer>>

Next ==
    \/ MainBuild
    \/ MainShuffle
    \/ MainFreq
    \/ Enter
    \/ WhileTrue
    \/ WhileFalse
    \/ PassBuild
    \/ \E p \in Orders(Len(edges) - 1) : PassShuffle(p)
    \/ PassFreq
    \/ PassCall
    \/ PassCallRaises
    \/ Skip
    \/ Consume
    \/ ConsumeRaises
    \/ Return
    \/ Assemble
    \/ Compare
    \/ Rerun

Spec == Init /\ [][Next]_vars

(***************************************************************************)
(* Scheduling.  The program is sequential and always takes its next step.  *)
(* A fair random.shuffle produces every order again and again: when passes *)
(* keep starting on an input for which some order drains the degree table, *)
(* such an order is drawn again and again.                                 *)
(***************************************************************************)
SomeOrderDrains ==
    \E p \in Orders(Len(seq) - kmer - 1) :
        Drains(shuffled_edges(de_bruijn_convert(seq, kmer).edges, p),
               de_bruijn_convert(seq, kmer).nodes)

FairShuffle ==
    []<>(pc = "pass_build" /\ SomeOrderDrains)
        => []<>(pc = "pass_freq" /\ Drains(graph, nodes))

FairSpec == Spec /\ WF_vars(Next) /\ FairShuffle

(***************************************************************************)
(* Properties.                                                             *)
(***************************************************************************)
L == Len(seq)

(* The k+1 letters of the input at offset i-1. *)
IsWindowOfInput(w) == \E i \in 1..(L - kmer) : SubSeq(seq, i, i + kmer) = w

(* No edge of the input is a self-loop: no k+1 consecutive equal letters. *)
NoSelfLoop ==
    \A i \in 1..(L - kmer) : SubSeq(seq, i, i + kmer - 1) # SubSeq(seq, i + 1, i + kmer)

(* The input is one letter repeated. *)
OneLetter == \A i \in 1..L : seq[i] = seq[1]

Count(list, e) == Cardinality({i \in 1..Len(list) : list[i] = e})

Range(list) == {list[i] : i \in 1..Len(list)}

(* Occurrences of node n as an end of an edge, a self-loop (n,n) giving 2. *)
EndpointOccurrences(es, n) ==
    Cardinality({i \in 1..Len(es) : es[i][1] = n})
        + Cardinality({i \in 1..Len(es) : es[i][2] = n})

(* C1, as stated: whenever find_eulerian_tour returns, the superstring of  *)
(* the returned tour equals the input and the verdict is "identical".      *)
C1_AlwaysIdentical ==
    /\ pc = "returned" => eulerian_tour_to_superstring(tour) = seq
    /\ pc = "done" => verdict = "identical"

(* C1, amended: whenever find_eulerian_tour returns, the reconstructed     *)
(* sequence begins with the first k letters of the input, is between k+1   *)
(* and L letters long, and each window of k+1 letters of it is a window of *)
(* the input; the verdict is "identical" exactly when it equals the input. *)
C1_ReconstructionFromInputWindows ==
    pc \in {"compare", "done"} =>
        /\ Len(assembled_seq) \in (kmer + 1)..L
        /\ SubSeq(assembled_seq, 1, kmer) = SubSeq(seq, 1, kmer)
        /\ \A i \in 1..(Len(assembled_seq) - kmer) :
               IsWindowOfInput(SubSeq(assembled_seq, i, i + kmer))
        /\ pc = "done" => (verdict = "identical" <=> assembled_seq = seq)
        /\ pc = "done" => verdict \in {"identical", "not identical"}

(* C1 witness: a run on an input without self-loops has consumed every     *)
(* edge and printed a sequence that differs from the input.                *)
C1_Witness ==
    /\ pc = "done"
    /\ NoSelfLoop
    /\ Len(assembled_seq) = L
    /\ verdict = "not identical"

(* C2, as stated: for every valid input some edge order with the first     *)
(* edge pinned makes a single pass return with the degree table summing to *)
(* zero, and the run under a fair shuffle leaves the while loop.           *)
C2_SomeOrderDrainsAndLoopExits ==
    /\ [](pc = "pass_build" => SomeOrderDrains)
    /\ <>(pc = "returned")

(* C3, as stated: when the while loop exits, the working edge list is      *)
(* empty and the returned tour has L-k+1 nodes.                            *)
C3_ExitMeansEveryEdgeConsumed ==
    pc = "returned" => graph = <<>> /\ Len(tour) = L - kmer + 1

(* C4, as stated: the degree table maps every node to its number of        *)
(* endpoint occurrences over the edge list, a self-loop counting twice.    *)
C4_TableCountsEndpointOccurrences ==
    pc \in {"call_find_eulerian_tour", "pass_call"} =>
        \A n \in nodes : freq_dict[n] = EndpointOccurrences(graph, n)

(* C5, as stated: within a pass the sum of the degree table drops by 2 at  *)
(* each edge removal, changes at no other step, and is 0 when the pass has *)
(* consumed all L-k edges.                                                 *)
C5_SumDropsByTwoToZero ==
    [][pc = "find_tour" =>
        ( /\ Len(graph') < Len(graph) => SumValues(freq_dict') = SumValues(freq_dict) - 2
          /\ Len(graph') = Len(graph) => SumValues(freq_dict') = SumValues(freq_dict)
          /\ graph' = <<>> => SumValues(freq_dict') = 0 )
      ]_vars

(* C6, as stated: two terminating runs on the same input return the same   *)
(* reconstructed sequence.                                                 *)
C6_SameReconstruction ==
    pc = "done" /\ previous # <<>> => assembled_seq = previous

(* C6, amended: two terminating runs on the same input return              *)
(* reconstructed sequences of the same length that begin with the same k   *)
(* letters; the rest can differ.                                           *)
C6_SameLengthAndStart ==
    pc = "done" /\ previous # <<>> =>
        /\ Len(assembled_seq) = Len(previous)
        /\ SubSeq(assembled_seq, 1, kmer) = SubSeq(previous, 1, kmer)

(* C6 witness: on an input without self-loops the second run has finished  *)
(* with another sequence than the first.                                   *)
C6_Witness ==
    pc = "done" /\ NoSelfLoop /\ previous # <<>> /\ assembled_seq # previous

(* C7: shuffled_edges returns a list whose first element is the first      *)
(* element of its input and whose other elements are, as a multiset, the   *)
(* other elements of its input.                                            *)
C7_ShufflePinsFirstKeepsRest ==
    [][(pc = "main_shuffle" \/ pc = "pass_shuffle") =>
        ( /\ graph'[1] = edges[1]
          /\ Len(graph') = Len(edges)
          /\ \A e \in Range(edges) \cup Range(graph') :
                 Count(Tail(graph'), e) = Count(Tail(edges), e) )
      ]_vars

(* C7 witness: a list that holds its first edge twice has been shuffled    *)
(* into another order.                                                     *)
C7_Witness ==
    /\ pc = "main_freq"
    /\ graph # de_bruijn_convert(seq, kmer).edges
    /\ Count(graph, graph[1]) >= 2

(* C8: the builder returns L-k edges, edge i made of the k letters from    *)
(* offset i and the k letters from offset i+1, duplicates kept, and as     *)
(* nodes the set of all length-k substrings of the input.                  *)
C8_BuilderEdgesAndNodes ==
    pc \in {"main_shuffle", "pass_shuffle"} =>
        /\ Len(edges) = L - kmer
        /\ \A i \in 1..Len(edges) :
               /\ Len(edges[i][1]) = kmer
               /\ Len(edges[i][2]) = kmer
               /\ \A j \in 1..kmer : /\ edges[i][1][j] = seq[i + j - 1]
                                     /\ edges[i][2][j] = seq[i + j]
        /\ nodes = {SubSeq(seq, i, i + kmer - 1) : i \in 1..(L - kmer + 1)}

(* C8 witness: the builder has returned a list with two equal edges for an *)
(* input whose final k-mer is the prefix of no edge.                       *)
C8_Witness ==
    /\ pc = "main_shuffle"
    /\ \E i, j \in 1..Len(edges) : i < j /\ edges[i] = edges[j]
    /\ \A i \in 1..Len(edges) : edges[i][1] # SubSeq(seq, L - kmer + 1, L)

(* C9, as stated: on ATGGGTCA with k = 2 the builder yields the six edges  *)
(* AT-TG, TG-GG, GG-GG, GG-GT, GT-TC, TC-CA and the run under a fair       *)
(* shuffle finishes with ATGGGTCA and the verdict "identical".             *)
C9_ExampleFinishesIdentical ==
    /\ [](seq = ExampleSeq /\ pc = "main_shuffle" =>
            edges = << <<<<"A", "T">>, <<"T", "G">>>>, <<<<"T", "G">>, <<"G", "G">>>>,
                       <<<<"G", "G">>, <<"G", "G">>>>, <<<<"G", "G">>, <<"G", "T">>>>,
                       <<<<"G", "T">>, <<"T", "C">>>>, <<<<"T", "C">>, <<"C", "A">>>> >>)
    /\ (seq = ExampleSeq) ~>
           (pc = "done" /\ assembled_seq = ExampleSeq /\ verdict = "identical")

(* C10, as stated: with k = L-1 the builder yields one edge and two nodes  *)
(* and the run finishes with a reconstructed sequence equal to the input.  *)
C10_MaximalKOneEdgeTwoNodes ==
    /\ [](kmer = L - 1 /\ pc = "main_shuffle" =>
            Len(edges) = 1 /\ Cardinality(nodes) = 2)
    /\ (kmer = L - 1) ~> (pc = "done" /\ assembled_seq = seq)

(* C11, as stated: on AAAA with k = 1 the builder yields three edges A-A,  *)
(* each removal takes exactly one of them out of the working list, and the *)
(* run under a fair shuffle finishes with the reconstructed sequence AAAA. *)
C11_FourAsFinishes ==
    /\ [](seq = <<"A", "A", "A", "A">> /\ kmer = 1 /\ pc = "main_shuffle" =>
            edges = << <<<<"A">>, <<"A">>>>, <<<<"A">>, <<"A">>>>, <<<<"A">>, <<"A">>>> >>)
    /\ [][(seq = <<"A", "A", "A", "A">> /\ kmer = 1 /\ pc = "find_tour"
              /\ graph' # graph) =>
            Len(graph') = Len(graph) - 1
          ]_vars
    /\ (seq = <<"A", "A", "A", "A">> /\ kmer = 1) ~>
           (pc = "done" /\ assembled_seq = <<"A", "A", "A", "A">>)

(* C12, as stated: at the moment of tour.insert(0, current) the working    *)
(* list holds no edge whose prefix is current.                             *)
C12_InsertAfterOutEdgesConsumed ==
    pc = "find_tour" /\ Top.i > Len(graph) =>
        \A j \in 1..Len(graph) : graph[j][1] # Top.current

(* C13: at the call of line 174 the working list is a permutation of the   *)
(* builder's L-k edges and the degree table is the one computed from it;   *)
(* the call starts with an empty tour; and what find_eulerian_tour returns *)
(* is what one pass leaves when started on a freshly built and shuffled    *)
(* list, a freshly computed table and an empty tour.                       *)
C13_EveryPassStartsFresh ==
    /\ [](pc = "pass_call" =>
            /\ Len(graph) = L - kmer
            /\ \A e \in Range(graph) \cup Range(de_bruijn_convert(seq, kmer).edges) :
                   Count(graph, e) = Count(de_bruijn_convert(seq, kmer).edges, e)
            /\ freq_dict = dictionary_of_node_edge_frequencies(
                                graph, de_bruijn_convert(seq, kmer).nodes))
    /\ [][pc = "pass_call" => tour' = <<>>]_vars
    /\ [](pc = "returned" =>
            \E p \in Orders(L - kmer - 1) :
                \E r \in {find_tour(
                              de_bruijn_convert(seq, kmer).edges[1][1],
                              shuffled_edges(de_bruijn_convert(seq, kmer).edges, p),
                              <<>>,
                              dictionary_of_node_edge_frequencies(
                                  shuffled_edges(de_bruijn_convert(seq, kmer).edges, p),
                                  de_bruijn_convert(seq, kmer).nodes))} :
                    r.Edges = graph /\ r.tour = tour /\ r.kmer_dict = freq_dict)

(* C13 witness: a pass is about to be called after an earlier pass left a  *)
(* tour, a shortened list and a decremented table behind.                  *)
C13_Witness ==
    /\ pc = "pass_call"
    /\ tour # <<>>
    /\ Len(graph) = L - kmer

(* C14: the outermost call of every pass is at the node sequence[0:k]; the  *)
(* first edge a pass removes is the head of the working list and is the    *)
(* offset-0 edge (sequence[0:k], sequence[1:k+1]); the tour a pass leaves, *)
(* and the returned tour, begin with sequence[0:k].                        *)
C14_PassStartsAtFirstKmer ==
    /\ [](pc = "find_tour" => stack[1].current = SubSeq(seq, 1, kmer))
    /\ [][(pc = "find_tour" /\ Len(graph) = L - kmer /\ graph' # graph) =>
            ( /\ graph[1] = <<SubSeq(seq, 1, kmer), SubSeq(seq, 2, kmer + 1)>>
              /\ graph' = Tail(graph) )
          ]_vars
    /\ []((pc = "while" /\ tour # <<>>) \/ pc = "returned" =>
            tour # <<>> /\ tour[1] = SubSeq(seq, 1, kmer))

(* C14 witness: the shuffle has moved the edges behind the first one and   *)
(* the pass has removed exactly one edge.                                  *)
C14_Witness ==
    /\ pc = "find_tour"
    /\ Len(graph) = L - kmer - 1
    /\ Len(stack) = 2
    /\ graph # Tail(de_bruijn_convert(seq, kmer).edges)

(* C15, as stated: at most L-k+1 calls of find_tour are active at a time,  *)
(* and with the module and find_eulerian_tour they never exceed the        *)
(* recursion limit len(seq): no call is refused with RecursionError.       *)
C15_RecursionLimitSuffices ==
    /\ pc = "find_tour" => Len(stack) <= L - kmer + 1
    /\ pc = "find_tour" => FramesBelowFindTour + Len(stack) <= recursion_limit
    /\ pc # "RecursionError"

(* C16: whenever find_eulerian_tour returns, every two consecutive nodes of *)
(* the returned tour are an edge of the builder's edge list, the first     *)
(* without its first letter being the second without its last letter.      *)
C16_ReturnedTourIsWalk ==
    pc = "returned" =>
        \A i \in 1..(Len(tour) - 1) :
            /\ <<tour[i], tour[i + 1]>> \in Range(de_bruijn_convert(seq, kmer).edges)
            /\ SubSeq(tour[i], 2, kmer) = SubSeq(tour[i + 1], 1, kmer - 1)

(* C16 witness: the returned tour uses every edge of an input without      *)
(* self-loops and is not the walk the input was cut from.                  *)
C16_Witness ==
    /\ pc = "returned"
    /\ NoSelfLoop
    /\ Len(tour) = L - kmer + 1
    /\ eulerian_tour_to_superstring(tour) # seq

(* C17: the degree table computed on entry to find_eulerian_tour does not   *)
(* sum to zero, so the loop body runs before the function returns and the  *)
(* returned tour is the tour of a pass; the list passed in by the caller   *)
(* is read for that table only and is replaced by the list of line 171     *)
(* before any call of find_tour.                                           *)
C17_LoopBodyRunsAtLeastOnce ==
    /\ [][pc = "call_find_eulerian_tour" => while_condition(freq_dict')]_vars
    /\ [][(pc = "main_freq" \/ pc = "call_find_eulerian_tour" \/ pc = "while"
              \/ pc = "pass_build") =>
            graph' = graph
          ]_vars
    /\ [][pc' = "find_tour" => pc \in {"pass_call", "find_tour"}]_vars
    /\ [](pc = "returned" => tour # <<>>)

(* C17 witness: the loop body has been entered for the first time, with    *)
(* the caller's list in an order other than the builder's.                 *)
C17_Witness ==
    /\ pc = "pass_build"
    /\ tour = <<>>
    /\ graph # de_bruijn_convert(seq, kmer).edges
    /\ Len(graph) = L - kmer

(* C18, as stated: during a pass every entry of the degree table is at     *)
(* least zero and equals the number of endpoint occurrences of its node    *)
(* among the edges still in the working list.                              *)
C18_EntriesCountRemainingEndpoints ==
    pc = "find_tour" =>
        \A n \in nodes :
            /\ freq_dict[n] >= 0
            /\ freq_dict[n] = EndpointOccurrences(graph, n)

(* The one-step actions and the function find_tour agree on every pass. *)
PassAgrees ==
    (pc = "while" /\ tour # <<>>) \/ pc = "RecursionError" =>
        \E p \in Orders(Len(seq) - kmer - 1) :
            LET g == shuffled_edges(de_bruijn_convert(seq, kmer).edges, p)
                r == find_tour(g[1][1], g, <<>>,
                               dictionary_of_node_edge_frequencies(g, nodes))
            IN  /\ r.Edges = graph
                /\ r.tour = tour
                /\ r.kmer_dict = freq_dict
                /\ r.raised <=> pc = "RecursionError"
====
